---------------------------- MODULE Spec2Model ----------------------------
(***************************************************************************)
(* Model of cli_async: main.rs (the processing pipeline, the ctrl-c task,  *)
(* the reporter task and main's select!/join!) together with reporter.rs   *)
(* (the two forwarding threads, the merged channel and progress_bar_sync). *)
(*                                                                         *)
(* Time is abstracted: every sleep is a point where the other tasks and    *)
(* threads may take any number of steps.  The tasks spawned on the runtime *)
(* and the two std threads are assumed to run in parallel (a runtime with  *)
(* a worker per task), so a blocking recv stalls only its own task.        *)
(*                                                                         *)
(* reporter_future calls progress_bar_sync once (main.rs 143), and one call *)
(* performs one recv, or two when the first yields Interrupt (reporter.rs   *)
(* 175, 195); the model follows that: rep_pc goes sync -> print -> done.    *)
(* The channels follow crossbeam's rules, as reporter.rs uses them: recv    *)
(* blocks until a message arrives or every sender is dropped, send fails    *)
(* once the receiver is dropped.  Runs are drawn with 0 <= skip <= count.   *)
(*                                                                         *)
(* A run processes at most MaxRun records: the third progress event is the  *)
(* last whose send can behave differently from the one before it.          *)
(*                                                                         *)
(* A PropertyRecord(n) is modelled by the number n.  A message in the      *)
(* progress channel is [n, info]: info is the PropertyInfoResult the code  *)
(* sends, n is a history tag (the index of the record that produced the    *)
(* message) which no action reads and which only the properties use.       *)
(***************************************************************************)
EXTENDS Integers, Sequences, FiniteSets, TLC

\* Largest --count drawn for a run (0 <= skip <= count <= MaxCount).
MaxCount == 4

\* Largest number of records a run processes (count - skip <= MaxRun).
MaxRun == 3

\* --count of the runs that exercise the persist limit (one more than the limit).
PersistRunCount == 11

\* Largest index the outcome function is tabulated for.
MaxIndex == 100

\* try_for_each_concurrent(10, ...)
PersistLimit == 10

\* mpsc::channel::<()>(2)
InterruptCapacity == 2

ErrorMessage == "Could not find record information online."

VARIABLES
    record_count,          \* Opt.count
    records_precompleted,  \* t03_read_output_file(skip)
    proc_pc,               \* processing_future: where the stream is
    proc_next,             \* the next index records.into_iter().enumerate() yields
    proc_n,                \* the (n, record) the `then` closure is working on
    proc_info,             \* `info` of the record in progress
    auth_waited,           \* records for which t06 performed its sleep
    persisting,            \* records whose t09 future is in flight
    persisted,             \* records whose t09 future completed
    started,               \* history: records whose rate-limit stage began, in order
    persist_started,       \* history: records whose t09 future was started, in order
    progress_chan,         \* mpsc::unbounded_channel::<PropertyInfoResult>()
    ctrlc_pc,              \* ctrl_c_future
    interrupt_chan,        \* mpsc::channel::<()>(2)
    int_thread_pc,         \* interrupt_rx_thread
    prog_thread_pc,        \* progress_rx_thread
    prog_thread_item,      \* property_info_result held by progress_rx_thread
    merged_chan,           \* channel::unbounded::<ProgressOrInterrupt>()
    rep_pc,                \* reporter_future
    report,                \* Reporter.report
    interrupted,           \* Reporter.interrupted
    progress_overall,      \* Reporter.progress_overall (position, length, finished)
    printed,               \* what print_report wrote to stderr
    main_pc,               \* main after the three spawns
    emitted,               \* history: messages sent on the progress channel
    observed,              \* history: Progress messages progress_bar_sync applied
    raised_at,             \* history: Len(emitted) when the signal was raised, or -1
    observed_at_interrupt, \* history: Len(observed) when Interrupt was consumed, or -1
    report_at_interrupt,   \* history: report when Interrupt was consumed
    fetch_n,               \* argument of a single call of t07_retrieve_information
    fetch_result           \* its result

vars == << record_count, records_precompleted, proc_pc, proc_next, proc_n,
           proc_info, auth_waited, persisting, persisted, started,
           persist_started, progress_chan, ctrlc_pc, interrupt_chan,
           int_thread_pc, prog_thread_pc, prog_thread_item, merged_chan,
           rep_pc, report, interrupted,
           progress_overall, printed, main_pc, emitted, observed, raised_at,
           observed_at_interrupt, report_at_interrupt, fetch_n, fetch_result >>

procVars   == << proc_pc, proc_next, proc_n, proc_info, auth_waited,
                 persisting, persisted, started, persist_started >>
ctrlcVars  == << ctrlc_pc, interrupt_chan, raised_at >>
repVars    == << rep_pc, report, interrupted, progress_overall, printed,
                 observed, observed_at_interrupt, report_at_interrupt >>
fetchVars  == << fetch_n, fetch_result >>
inputVars  == << record_count, records_precompleted >>

NoInfo == [tag |-> "None"]

----------------------------------------------------------------------------
(* types (main.rs) and the looped tasks that are pure functions            *)

Success == [tag |-> "Success"]
SuccessPartial == [tag |-> "SuccessPartial"]
Error(record, error) == [tag |-> "Error", record |-> record, error |-> error]

\* variant: the test on n % 3 is lost from the Error condition
t07_error_on_multiples_of_11(n, property_record) ==
    IF n % 11 = 0 THEN Error(property_record, ErrorMessage)
    ELSE IF n % 3 = 0 THEN SuccessPartial
    ELSE Success

t07_retrieve_information(n, property_record) ==
    IF n % 11 = 0 /\ n % 3 = 0 THEN Error(property_record, ErrorMessage)
    ELSE IF n % 3 = 0 THEN SuccessPartial
    ELSE Success

\* t06 sleeps only when first_time
t06_waits(first_time) == first_time

Progress(msg) == [kind |-> "Progress", result |-> msg.info, n |-> msg.n]
Interrupt == [kind |-> "Interrupt"]

----------------------------------------------------------------------------
(* Reporter::new and the run's start                                       *)

\* variant: the report is Default::default(), the skipped count is lost
ReportNew_Default(record_count_processed) ==
    [ record_skipped_count |-> 0,
      record_processed_successful_count |-> 0,
      record_processed_info_missing_count |-> 0,
      records_processed_failed |-> << >> ]

ReportNew(record_count_processed) ==
    [ record_skipped_count |-> record_count_processed,
      record_processed_successful_count |-> 0,
      record_processed_info_missing_count |-> 0,
      records_processed_failed |-> << >> ]

ProgressBarNew(count, record_count_processed) ==
    [ pos |-> record_count_processed, len |-> count, finished |-> FALSE ]

InitialInterrupted == FALSE

\* variant: the skip(records_precompleted) is lost
StreamFromZero(skip) == 0

\* records.into_iter().enumerate().skip(records_precompleted): the first index
StreamFirstIndex(skip) == skip

ProgramInit(count, skip) ==
    /\ record_count = count
    /\ records_precompleted = skip
    /\ proc_pc = "poll"
    /\ proc_next = StreamFirstIndex(skip)
    /\ proc_n = -1
    /\ proc_info = NoInfo
    /\ auth_waited = {}
    /\ persisting = {}
    /\ persisted = {}
    /\ started = << >>
    /\ persist_started = << >>
    /\ progress_chan = << >>
    /\ ctrlc_pc = "waiting"
    /\ interrupt_chan = << >>
    /\ int_thread_pc = "recv"
    /\ prog_thread_pc = "recv"
    /\ prog_thread_item = NoInfo
    /\ merged_chan = << >>
    /\ rep_pc = "sync"
    /\ report = ReportNew(skip)
    /\ interrupted = InitialInterrupted
    /\ progress_overall = ProgressBarNew(count, skip)
    /\ printed = NoInfo
    /\ main_pc = "join"
    /\ emitted = << >>
    /\ observed = << >>
    /\ raised_at = -1
    /\ observed_at_interrupt = -1
    /\ report_at_interrupt = NoInfo

Init ==
    /\ \E count \in 0..MaxCount : \E skip \in 0..count :
          /\ count - skip <= MaxRun
          /\ ProgramInit(count, skip)
    /\ fetch_n = 0
    /\ fetch_result = NoInfo

----------------------------------------------------------------------------
(* Which ends of the channels are still held                               *)

\* progress_tx is owned by processing_future
ProgressTxAlive == proc_pc \notin {"finished", "panicked", "dropped"}
\* progress_receiver is owned by progress_rx_thread
ProgressRxAlive == prog_thread_pc \in {"recv", "send"}
\* tx of the interrupt channel is owned by ctrl_c_future
InterruptTxAlive == ctrlc_pc \in {"waiting", "signalled"}
\* interrupt_rx is owned by interrupt_rx_thread
InterruptRxAlive == int_thread_pc = "recv"
\* variant: a clone of tx outlives the threads (the Reporter keeps one)
MergedTxKept == TRUE

\* tx and its clone are owned by the two threads
MergedTxAlive == int_thread_pc # "done" \/ prog_thread_pc \in {"recv", "send"}
\* variant: the Reporter, and rx with it, outlives reporter_future
MergedRxKept == TRUE

\* rx is owned by the Reporter, which reporter_future owns
MergedRxAlive == rep_pc # "done"

\* the runtime still polls its tasks; the threads still run
RuntimeAlive == main_pc = "join"
ProcessAlive == main_pc # "exited"

----------------------------------------------------------------------------
(* processing_future (main.rs 147-167)                                     *)

\* variant: for_each_concurrent without a limit
StreamAlwaysPolled == TRUE

\* try_for_each_concurrent polls the `then` stream only below its limit
StreamPolled == Cardinality(persisting) < PersistLimit

\* variant: the stream starts the next record while one is still in its stages
ThenIdle_Ignored == proc_pc \in {"poll", "rate_limit", "authenticate", "retrieve", "send"}

\* `then` holds no pending future: the previous closure has returned
ThenIdle == proc_pc = "poll"

StartRecord ==
    /\ RuntimeAlive
    /\ ThenIdle
    /\ started' = Append(started, proc_next)
    /\ UNCHANGED persist_started
    /\ StreamPolled
    /\ proc_next < record_count
    /\ proc_n' = proc_next
    /\ proc_next' = proc_next + 1
    /\ proc_pc' = "rate_limit"
    /\ UNCHANGED << proc_info, auth_waited, persisting, persisted >>
    /\ UNCHANGED << inputVars, progress_chan, ctrlcVars, int_thread_pc,
                    prog_thread_pc, prog_thread_item, merged_chan, repVars,
                    main_pc, emitted, fetchVars >>

t05_rate_limit_requests ==
    /\ UNCHANGED << started, persist_started >>
    /\ RuntimeAlive
    /\ proc_pc = "rate_limit"
    /\ StreamPolled
    /\ proc_pc' = "authenticate"
    /\ UNCHANGED << proc_next, proc_n, proc_info, auth_waited, persisting,
                    persisted >>
    /\ UNCHANGED << inputVars, progress_chan, ctrlcVars, int_thread_pc,
                    prog_thread_pc, prog_thread_item, merged_chan, repVars,
                    main_pc, emitted, fetchVars >>

t06_authenticate_with_server ==
    /\ UNCHANGED << started, persist_started >>
    /\ RuntimeAlive
    /\ proc_pc = "authenticate"
    /\ StreamPolled
    /\ auth_waited' = IF t06_waits(proc_n = 0) THEN auth_waited \cup {proc_n}
                      ELSE auth_waited
    /\ proc_pc' = "retrieve"
    /\ UNCHANGED << proc_next, proc_n, proc_info, persisting, persisted >>
    /\ UNCHANGED << inputVars, progress_chan, ctrlcVars, int_thread_pc,
                    prog_thread_pc, prog_thread_item, merged_chan, repVars,
                    main_pc, emitted, fetchVars >>

RetrieveInformation ==
    /\ UNCHANGED << started, persist_started >>
    /\ RuntimeAlive
    /\ proc_pc = "retrieve"
    /\ StreamPolled
    /\ proc_info' = t07_retrieve_information(proc_n, proc_n)
    /\ proc_pc' = "send"
    /\ UNCHANGED << proc_next, proc_n, auth_waited, persisting, persisted >>
    /\ UNCHANGED << inputVars, progress_chan, ctrlcVars, int_thread_pc,
                    prog_thread_pc, prog_thread_item, merged_chan, repVars,
                    main_pc, emitted, fetchVars >>

\* progress_tx.send(info).expect(..): fails once the receiver is gone
SendProgress ==
    /\ UNCHANGED << started, persist_started >>
    /\ RuntimeAlive
    /\ proc_pc = "send"
    /\ StreamPolled
    /\ IF ProgressRxAlive
       THEN /\ progress_chan' = Append(progress_chan, [n |-> proc_n, info |-> proc_info])
            /\ emitted' = Append(emitted, [n |-> proc_n, info |-> proc_info])
            /\ proc_pc' = "augmented"
       ELSE /\ proc_pc' = "panicked"
            /\ UNCHANGED << progress_chan, emitted >>
    /\ UNCHANGED << proc_next, proc_n, proc_info, auth_waited, persisting,
                    persisted >>
    /\ UNCHANGED << inputVars, ctrlcVars, int_thread_pc, prog_thread_pc,
                    prog_thread_item, merged_chan, repVars, main_pc,
                    fetchVars >>

\* variant: the send is lost from the closure, the record goes straight on
PersistStart_WithoutSend ==
    /\ UNCHANGED started
    /\ persist_started' = Append(persist_started, proc_n)
    /\ RuntimeAlive
    /\ proc_pc \in {"send", "augmented"}
    /\ StreamPolled
    /\ persisting' = persisting \cup {proc_n}
    /\ proc_n' = -1
    /\ proc_info' = NoInfo
    /\ proc_pc' = "poll"
    /\ UNCHANGED << proc_next, auth_waited, persisted >>
    /\ UNCHANGED << inputVars, progress_chan, ctrlcVars, int_thread_pc,
                    prog_thread_pc, prog_thread_item, merged_chan, repVars,
                    main_pc, emitted, fetchVars >>

\* Ok(t08_augment_record(..)) reaches try_for_each_concurrent, which starts t09
PersistStart ==
    /\ UNCHANGED started
    /\ persist_started' = Append(persist_started, proc_n)
    /\ RuntimeAlive
    /\ proc_pc = "augmented"
    /\ StreamPolled
    /\ persisting' = persisting \cup {proc_n}
    /\ proc_n' = -1
    /\ proc_info' = NoInfo
    /\ proc_pc' = "poll"
    /\ UNCHANGED << proc_next, auth_waited, persisted >>
    /\ UNCHANGED << inputVars, progress_chan, ctrlcVars, int_thread_pc,
                    prog_thread_pc, prog_thread_item, merged_chan, repVars,
                    main_pc, emitted, fetchVars >>

t09_output_record_to_file(r) ==
    /\ UNCHANGED << started, persist_started >>
    /\ RuntimeAlive
    /\ ProgressTxAlive
    /\ r \in persisting
    /\ persisting' = persisting \ {r}
    /\ persisted' = persisted \cup {r}
    /\ UNCHANGED << proc_pc, proc_next, proc_n, proc_info, auth_waited >>
    /\ UNCHANGED << inputVars, progress_chan, ctrlcVars, int_thread_pc,
                    prog_thread_pc, prog_thread_item, merged_chan, repVars,
                    main_pc, emitted, fetchVars >>

\* the stream is exhausted and no t09 future is left: the task completes
ProcessingDone ==
    /\ UNCHANGED << started, persist_started >>
    /\ RuntimeAlive
    /\ proc_pc = "poll"
    /\ proc_next >= record_count
    /\ persisting = {}
    /\ proc_pc' = "finished"
    /\ UNCHANGED << proc_next, proc_n, proc_info, auth_waited, persisting,
                    persisted >>
    /\ UNCHANGED << inputVars, progress_chan, ctrlcVars, int_thread_pc,
                    prog_thread_pc, prog_thread_item, merged_chan, repVars,
                    main_pc, emitted, fetchVars >>

----------------------------------------------------------------------------
(* ctrl_c_future (main.rs 38-49)                                           *)

\* the operating system delivers SIGINT: ctrl_c.await resolves
CtrlCSignal ==
    /\ RuntimeAlive
    /\ ctrlc_pc = "waiting"
    /\ ctrlc_pc' = "signalled"
    /\ raised_at' = Len(emitted)
    /\ UNCHANGED << interrupt_chan >>
    /\ UNCHANGED << inputVars, procVars, progress_chan, int_thread_pc,
                    prog_thread_pc, prog_thread_item, merged_chan, repVars,
                    main_pc, emitted, fetchVars >>

\* variant: the handler sends and then waits for the next signal
t00_send_interrupt_rearmed ==
    /\ RuntimeAlive
    /\ ctrlc_pc = "signalled"
    /\ InterruptRxAlive
    /\ Len(interrupt_chan) < InterruptCapacity
    /\ interrupt_chan' = Append(interrupt_chan, "unit")
    /\ ctrlc_pc' = "waiting"
    /\ UNCHANGED << raised_at >>
    /\ UNCHANGED << inputVars, procVars, progress_chan, int_thread_pc,
                    prog_thread_pc, prog_thread_item, merged_chan, repVars,
                    main_pc, emitted, fetchVars >>

\* tx.send(()).await.expect(..): waits while the buffer is full
t00_send_interrupt ==
    /\ RuntimeAlive
    /\ ctrlc_pc = "signalled"
    /\ IF InterruptRxAlive
       THEN /\ Len(interrupt_chan) < InterruptCapacity
            /\ interrupt_chan' = Append(interrupt_chan, "unit")
            /\ ctrlc_pc' = "done"
       ELSE /\ ctrlc_pc' = "panicked"
            /\ UNCHANGED interrupt_chan
    /\ UNCHANGED << raised_at >>
    /\ UNCHANGED << inputVars, procVars, progress_chan, int_thread_pc,
                    prog_thread_pc, prog_thread_item, merged_chan, repVars,
                    main_pc, emitted, fetchVars >>

----------------------------------------------------------------------------
(* Reporter::progress_bar_startup: the two threads (reporter.rs 117-171)   *)

\* interrupt_rx.recv() returns on a message, and also when tx is dropped
InterruptRecv ==
    /\ ProcessAlive
    /\ int_thread_pc = "recv"
    /\ \/ /\ interrupt_chan # << >>
          /\ interrupt_chan' = Tail(interrupt_chan)
       \/ /\ interrupt_chan = << >>
          /\ ~InterruptTxAlive
          /\ UNCHANGED interrupt_chan
    /\ int_thread_pc' = "send"
    /\ UNCHANGED << ctrlc_pc, raised_at >>
    /\ UNCHANGED << inputVars, procVars, progress_chan, prog_thread_pc,
                    prog_thread_item, merged_chan, repVars, main_pc, emitted,
                    fetchVars >>

\* let _result = progress_tx_interrupt.send(Interrupt): a failure is ignored
InterruptForward ==
    /\ ProcessAlive
    /\ int_thread_pc = "send"
    /\ merged_chan' = IF MergedRxAlive THEN Append(merged_chan, Interrupt)
                      ELSE merged_chan
    /\ int_thread_pc' = "done"
    /\ UNCHANGED << inputVars, procVars, progress_chan, ctrlcVars,
                    prog_thread_pc, prog_thread_item, repVars, main_pc,
                    emitted, fetchVars >>

\* variant: the thread takes the newest message first
ProgressRecvNewest(chan) == Len(chan)

\* what progress_receiver.recv() hands over: the oldest message
ProgressRecvIndex(chan) == 1

RemoveAt(seq, i) == SubSeq(seq, 1, i - 1) \o SubSeq(seq, i + 1, Len(seq))

\* while let Ok(property_info_result) = progress_receiver.recv()
ProgressRecv ==
    /\ ProcessAlive
    /\ prog_thread_pc = "recv"
    /\ progress_chan # << >>
    /\ prog_thread_item' = progress_chan[ProgressRecvIndex(progress_chan)]
    /\ progress_chan' = RemoveAt(progress_chan, ProgressRecvIndex(progress_chan))
    /\ prog_thread_pc' = "send"
    /\ UNCHANGED << inputVars, procVars, ctrlcVars, int_thread_pc,
                    merged_chan, repVars, main_pc, emitted, fetchVars >>

\* recv() returns Err: the channel is empty and progress_tx is dropped
ProgressRecvClosed ==
    /\ ProcessAlive
    /\ prog_thread_pc = "recv"
    /\ progress_chan = << >>
    /\ ~ProgressTxAlive
    /\ prog_thread_pc' = "done"
    /\ UNCHANGED << inputVars, procVars, progress_chan, ctrlcVars,
                    int_thread_pc, prog_thread_item, merged_chan, repVars,
                    main_pc, emitted, fetchVars >>

\* progress_tx_interrupt.send(Progress(..)).expect(..)
ProgressForward ==
    /\ ProcessAlive
    /\ prog_thread_pc = "send"
    /\ IF MergedRxAlive
       THEN /\ merged_chan' = Append(merged_chan, Progress(prog_thread_item))
            /\ prog_thread_pc' = "recv"
       ELSE /\ prog_thread_pc' = "panicked"
            /\ UNCHANGED merged_chan
    /\ prog_thread_item' = NoInfo
    /\ UNCHANGED << inputVars, procVars, progress_chan, ctrlcVars,
                    int_thread_pc, repVars, main_pc, emitted, fetchVars >>

----------------------------------------------------------------------------
(* Reporter::progress_bar_sync and print_report (reporter.rs 173-335),     *)
(* as reporter_future calls them (main.rs 142-145)                         *)

\* variant: the Error arm counts nothing
ReportApply_ErrorDropped(rep, process_result) ==
    IF process_result.tag = "Success"
    THEN [rep EXCEPT !.record_processed_successful_count = @ + 1]
    ELSE IF process_result.tag = "SuccessPartial"
    THEN [rep EXCEPT !.record_processed_info_missing_count = @ + 1]
    ELSE rep

\* variant: the SuccessPartial arm also counts a success
ReportApply_PartialCountsAsSuccess(rep, process_result) ==
    IF process_result.tag = "Success"
    THEN [rep EXCEPT !.record_processed_successful_count = @ + 1]
    ELSE IF process_result.tag = "SuccessPartial"
    THEN [rep EXCEPT !.record_processed_info_missing_count = @ + 1,
                     !.record_processed_successful_count = @ + 1]
    ELSE [rep EXCEPT !.records_processed_failed =
              Append(@, << process_result.record, process_result.error >>)]

\* variant: the Error arm pushes its pair twice
ReportApply_ErrorPushedTwice(rep, process_result) ==
    IF process_result.tag = "Success"
    THEN [rep EXCEPT !.record_processed_successful_count = @ + 1]
    ELSE IF process_result.tag = "SuccessPartial"
    THEN [rep EXCEPT !.record_processed_info_missing_count = @ + 1]
    ELSE [rep EXCEPT !.records_processed_failed =
              @ \o << << process_result.record, process_result.error >>,
                      << process_result.record, process_result.error >> >>]

\* the match on process_result
ReportApply(rep, process_result) ==
    IF process_result.tag = "Success"
    THEN [rep EXCEPT !.record_processed_successful_count = @ + 1]
    ELSE IF process_result.tag = "SuccessPartial"
    THEN [rep EXCEPT !.record_processed_info_missing_count = @ + 1]
    ELSE [rep EXCEPT !.records_processed_failed =
              Append(@, << process_result.record, process_result.error >>)]

\* progress_overall.inc(1)
ProgressBarInc(bar) == [bar EXCEPT !.pos = @ + 1]

\* progress_overall.finish()
ProgressBarFinish(bar) == [bar EXCEPT !.pos = bar.len, !.finished = TRUE]

\* variant: the Progress arm clears the flag
InterruptedClearedByProgress(flag) == FALSE

\* variant: the Progress arm sets the flag
InterruptedSetByProgress(flag) == TRUE

\* self.interrupted after the Progress arm
InterruptedAfterProgress(flag) == flag

\* one recv() that yields Progress: the tally, inc(1), and the call returns
SyncProgress ==
    /\ RuntimeAlive
    /\ rep_pc = "sync"
    /\ merged_chan # << >>
    /\ Head(merged_chan).kind = "Progress"
    /\ merged_chan' = Tail(merged_chan)
    /\ report' = ReportApply(report, Head(merged_chan).result)
    /\ progress_overall' = ProgressBarInc(progress_overall)
    /\ interrupted' = InterruptedAfterProgress(interrupted)
    /\ observed' = Append(observed, [n |-> Head(merged_chan).n,
                                     info |-> Head(merged_chan).result])
    /\ rep_pc' = "print"
    /\ UNCHANGED << printed, observed_at_interrupt, report_at_interrupt >>
    /\ UNCHANGED << inputVars, procVars, progress_chan, ctrlcVars,
                    int_thread_pc, prog_thread_pc, prog_thread_item, main_pc,
                    emitted, fetchVars >>

\* one recv() that yields Interrupt: the flag, finish(), and the recursive call
SyncInterrupt ==
    /\ RuntimeAlive
    /\ rep_pc = "sync"
    /\ merged_chan # << >>
    /\ Head(merged_chan).kind = "Interrupt"
    /\ merged_chan' = Tail(merged_chan)
    /\ interrupted' = TRUE
    /\ progress_overall' = ProgressBarFinish(progress_overall)
    /\ observed_at_interrupt' = Len(observed)
    /\ report_at_interrupt' = report
    /\ rep_pc' = "sync"
    /\ UNCHANGED << report, printed, observed >>
    /\ UNCHANGED << inputVars, procVars, progress_chan, ctrlcVars,
                    int_thread_pc, prog_thread_pc, prog_thread_item, main_pc,
                    emitted, fetchVars >>

\* recv() returns Err: the channel is empty and both senders are dropped
SyncDisconnected ==
    /\ RuntimeAlive
    /\ rep_pc = "sync"
    /\ merged_chan = << >>
    /\ ~MergedTxAlive
    /\ rep_pc' = "print"
    /\ UNCHANGED << report, interrupted, progress_overall, printed, observed,
                    observed_at_interrupt, report_at_interrupt >>
    /\ UNCHANGED << inputVars, procVars, progress_chan, ctrlcVars,
                    int_thread_pc, prog_thread_pc, prog_thread_item,
                    merged_chan, main_pc, emitted, fetchVars >>

\* t11_output_execution_report; reporter_future ends and drops the Reporter
t11_output_execution_report ==
    /\ RuntimeAlive
    /\ rep_pc = "print"
    /\ printed' = report
    /\ rep_pc' = "done"
    /\ UNCHANGED << report, interrupted, progress_overall, observed,
                    observed_at_interrupt, report_at_interrupt >>
    /\ UNCHANGED << inputVars, procVars, progress_chan, ctrlcVars,
                    int_thread_pc, prog_thread_pc, prog_thread_item,
                    merged_chan, main_pc, emitted, fetchVars >>

----------------------------------------------------------------------------
(* main: select!, join!, return (main.rs 169-184)                          *)

CtrlCHandleDone == ctrlc_pc \in {"done", "panicked"}
ProcessingHandleDone == proc_pc \in {"finished", "panicked"}
ReporterHandleDone == rep_pc = "done"

\* tokio::join!(reporter_handle, processed_or_interrupted)
JoinReady == ReporterHandleDone /\ (CtrlCHandleDone \/ ProcessingHandleDone)

\* main returns Ok(()): the runtime is dropped and with it the unfinished tasks
MainReturn ==
    /\ UNCHANGED << started, persist_started >>
    /\ main_pc = "join"
    /\ JoinReady
    /\ main_pc' = "returned"
    /\ proc_pc' = IF ProcessingHandleDone THEN proc_pc ELSE "dropped"
    /\ persisting' = IF ProcessingHandleDone THEN persisting ELSE {}
    /\ ctrlc_pc' = IF CtrlCHandleDone THEN ctrlc_pc ELSE "dropped"
    /\ UNCHANGED << proc_next, proc_n, proc_info, auth_waited, persisted,
                    interrupt_chan, raised_at >>
    /\ UNCHANGED << inputVars, progress_chan, int_thread_pc, prog_thread_pc,
                    prog_thread_item, merged_chan, repVars, emitted,
                    fetchVars >>

\* the process ends, and its threads with it
ProcessExit ==
    /\ main_pc = "returned"
    /\ main_pc' = "exited"
    /\ UNCHANGED << inputVars, procVars, progress_chan, ctrlcVars,
                    int_thread_pc, prog_thread_pc, prog_thread_item,
                    merged_chan, repVars, emitted, fetchVars >>

----------------------------------------------------------------------------
(* The program                                                             *)

ProgramNext ==
    \/ StartRecord
    \/ t05_rate_limit_requests
    \/ t06_authenticate_with_server
    \/ RetrieveInformation
    \/ SendProgress
    \/ PersistStart
    \/ \E r \in 0..MaxCount : t09_output_record_to_file(r)
    \/ ProcessingDone
    \/ t00_send_interrupt
    \/ InterruptRecv
    \/ InterruptForward
    \/ ProgressRecv
    \/ ProgressRecvClosed
    \/ ProgressForward
    \/ SyncProgress
    \/ SyncInterrupt
    \/ SyncDisconnected
    \/ t11_output_execution_report
    \/ MainReturn
    \/ ProcessExit

Next == ProgramNext \/ CtrlCSignal

Spec == Init /\ [][Next]_vars

\* every task and thread that can take a step eventually takes one; the
\* signal is the environment's and may never come
FairSpec == Spec /\ WF_vars(ProgramNext)

----------------------------------------------------------------------------
(* processing_future on its own, over a run long enough to fill the        *)
(* persist stage                                                           *)

InitPersist ==
    /\ ProgramInit(PersistRunCount, 0)
    /\ fetch_n = 0
    /\ fetch_result = NoInfo

NextPersist ==
    \/ StartRecord
    \/ t05_rate_limit_requests
    \/ t06_authenticate_with_server
    \/ RetrieveInformation
    \/ SendProgress
    \/ PersistStart
    \/ \E r \in 0..PersistRunCount : t09_output_record_to_file(r)
    \/ ProcessingDone

SpecPersist == InitPersist /\ [][NextPersist]_vars

----------------------------------------------------------------------------
(* A single call of the outcome function                                   *)

InitFetch ==
    /\ ProgramInit(0, 0)
    /\ fetch_n \in 0..MaxIndex
    /\ fetch_result = NoInfo

FetchCall ==
    /\ fetch_result = NoInfo
    /\ fetch_result' = t07_retrieve_information(fetch_n, fetch_n)
    /\ UNCHANGED << inputVars, procVars, progress_chan, ctrlcVars,
                    int_thread_pc, prog_thread_pc, prog_thread_item,
                    merged_chan, repVars, main_pc, emitted, fetch_n >>

NextFetch == FetchCall

SpecFetch == InitFetch /\ [][NextFetch]_vars

----------------------------------------------------------------------------
(* Vocabulary of the properties                                            *)

\* success + partial + errors of a report
Processed(rep) ==
    rep.record_processed_successful_count
    + rep.record_processed_info_missing_count
    + Len(rep.records_processed_failed)

\* the outcome rule of the specification (section 4.1)
ReferenceOutcome(n) ==
    IF n % 33 = 0 THEN Error(n, ErrorMessage)
    ELSE IF n % 3 = 0 THEN SuccessPartial
    ELSE Success

RECURSIVE ReferenceFailed(_, _)
ReferenceFailed(first, k) ==
    IF k = 0 THEN << >>
    ELSE LET rest == ReferenceFailed(first, k - 1)
             n == first + k - 1
         IN  IF ReferenceOutcome(n).tag = "Error"
             THEN Append(rest, << n, ErrorMessage >>)
             ELSE rest

\* the report that reflects exactly the outcomes of records first..first+k-1
ReferenceReport(first, k) ==
    [ record_skipped_count |-> first,
      record_processed_successful_count |->
          Cardinality({n \in first..(first + k - 1) : ReferenceOutcome(n).tag = "Success"}),
      record_processed_info_missing_count |->
          Cardinality({n \in first..(first + k - 1) : ReferenceOutcome(n).tag = "SuccessPartial"}),
      records_processed_failed |-> ReferenceFailed(first, k) ]

IsPrefix(s, t) == Len(s) <= Len(t) /\ SubSeq(t, 1, Len(s)) = s

IsProgress(m) == m.kind = "Progress"

\* the Progress messages waiting in the merged channel, as [n, info]
QueuedProgress ==
    LET q == SelectSeq(merged_chan, IsProgress)
    IN  [i \in 1..Len(q) |-> [n |-> q[i].n, info |-> q[i].result]]

IsErrorMessage(m) == m.info.tag = "Error"

\* the (record, message) pairs of the Error outcomes among msgs, in order
ErrorPairs(msgs) ==
    LET e == SelectSeq(msgs, IsErrorMessage)
    IN  [i \in 1..Len(e) |-> << e[i].info.record, e[i].info.error >>]

Reported == printed # NoInfo
SignalRaised == raised_at # -1
InterruptObserved == observed_at_interrupt # -1

----------------------------------------------------------------------------
(* Claims                                                                  *)

\* C1: in a run in which no interrupt is raised, the emitted report has
\* skipped = S and success + missing-info + errors = N - S.
C1_UninterruptedTotals ==
    (Reported /\ ~SignalRaised) =>
        /\ printed.record_skipped_count = records_precompleted
        /\ Processed(printed) = record_count - records_precompleted

C3_ReportOnEveryPath ==
    /\ <>Reported
    /\ [](main_pc = "exited" => Reported)

\* C4: the Aggregator takes the progress events in the order the executor
\* emitted them, which is ascending record index from S: what it has applied,
\* followed by what is queued for it, is a prefix of what was emitted.
C4_ObservedInEmissionOrder ==
    /\ \A i \in 1..Len(emitted) : emitted[i].n = records_precompleted + i - 1
    /\ IsPrefix(observed \o QueuedProgress, emitted)

C4_Witness ==
    /\ Len(observed) = 1
    /\ Len(QueuedProgress) >= 1
    /\ persisting # {}
    /\ interrupted

\* C5: every progress event emitted before the interrupt was raised is
\* applied to the report the interrupted Aggregator ends with.
C5_NothingBeforeInterruptDropped ==
    (Reported /\ interrupted) => Len(observed) >= raised_at

\* C6: success + missing-info + errors is the number of progress events the
\* Aggregator has observed, and never exceeds N - S.
C6_TalliesCountObserved ==
    /\ Processed(report) = Len(observed)
    /\ Len(observed) <= record_count - records_precompleted

C6_Witness ==
    /\ Len(observed) = 1
    /\ Len(report.records_processed_failed) = 1
    /\ record_count - records_precompleted = 1

\* C7: once the interrupted flag is set, no further record begins its
\* rate-limit stage.
C7_NoRecordStartsAfterInterrupt ==
    [][interrupted => proc_next' = proc_next]_vars

\* C8: the interrupted flag starts false, only ever goes from false to true,
\* and does so only in the step that consumes an Interrupt event.
C8_FlagSetOnlyByInterrupt ==
    /\ interrupted = FALSE
    /\ [][ /\ (interrupted => interrupted')
           /\ (interrupted' # interrupted =>
                  /\ rep_pc = "sync"
                  /\ merged_chan # << >>
                  /\ Head(merged_chan) = Interrupt
                  /\ merged_chan' = Tail(merged_chan)) ]_vars

C8_Witness ==
    /\ interrupted
    /\ Len(observed) = 1
    /\ main_pc = "exited"

C10_FetchIsReference ==
    fetch_result # NoInfo => fetch_result = ReferenceOutcome(fetch_n)

C10_Witness ==
    /\ fetch_n = 66
    /\ fetch_result = Error(66, ErrorMessage)

\* C11: after the Aggregator has consumed the Interrupt, the call of
\* progress_bar_sync, with its recursive call, eventually returns.
C11_SyncReturnsAfterInterrupt ==
    InterruptObserved ~> (rep_pc # "sync")

\* the recursive call returned because the channel was disconnected
C11_Witness ==
    /\ InterruptObserved
    /\ rep_pc = "print"
    /\ observed = << >>

C13_PositionFrozenAfterFinish ==
    [][progress_overall.finished =>
          progress_overall'.pos = progress_overall.pos]_vars

\* C14: with S < N the authenticate stage waits exactly once, on record S,
\* and on no other record.
C14_AuthenticateWaitsOnFirstRecord ==
    /\ auth_waited \subseteq {records_precompleted}
    /\ (records_precompleted \in (persisting \cup persisted) =>
           auth_waited = {records_precompleted})

\* C15: the stages up to the emission of the progress event run one record
\* at a time in index order: record i+1 starts its rate-limit stage only
\* after record i has emitted its progress event.
C15_StagesSequential ==
    /\ \A i \in 1..Len(started) : started[i] = records_precompleted + i - 1
    /\ Len(emitted) <= Len(started)
    /\ Len(started) <= Len(emitted) + 1
    /\ \A i \in 1..Len(emitted) : emitted[i].n = started[i]
    /\ (proc_pc \in {"rate_limit", "authenticate", "retrieve", "send"} =>
           /\ Len(started) = Len(emitted) + 1
           /\ proc_n = started[Len(started)])

C15_Witness ==
    /\ Len(started) = 3
    /\ Len(emitted) = 2
    /\ proc_pc = "retrieve"
    /\ Cardinality(persisting) = 2

\* C16: at most 10 persist operations are in flight at any moment.
C16_PersistBounded ==
    Cardinality(persisting) <= PersistLimit

\* the limit is reached while a record is still waiting to be started
C16_Witness ==
    /\ Cardinality(persisting) = PersistLimit
    /\ proc_pc = "poll"
    /\ proc_next < record_count

\* C17: consuming one Progress event advances the position by one and
\* changes exactly the tally of its outcome; the other tallies, the skipped
\* count and the interrupted flag stay as they were.
C17_OneTallyPerEvent ==
    [][ observed' # observed =>
          LET ev == observed'[Len(observed')].info
          IN  /\ Len(observed') = Len(observed) + 1
              /\ progress_overall'.pos = progress_overall.pos + 1
              /\ interrupted' = interrupted
              /\ report'.record_skipped_count = report.record_skipped_count
              /\ report'.record_processed_successful_count =
                     report.record_processed_successful_count
                     + (IF ev.tag = "Success" THEN 1 ELSE 0)
              /\ report'.record_processed_info_missing_count =
                     report.record_processed_info_missing_count
                     + (IF ev.tag = "SuccessPartial" THEN 1 ELSE 0)
              /\ report'.records_processed_failed =
                     IF ev.tag = "Error"
                     THEN Append(report.records_processed_failed,
                                 << ev.record, ev.error >>)
                     ELSE report.records_processed_failed ]_vars

C17_Witness ==
    /\ Len(observed) = 1
    /\ observed[1].info = SuccessPartial
    /\ report.record_processed_info_missing_count = 1
    /\ report.record_processed_successful_count = 0
    /\ progress_overall.pos = records_precompleted + 1

\* C18: the skipped count of the report is S in every state, and in the
\* report that is emitted.
C18_SkippedIsResumeOffset ==
    /\ report.record_skipped_count = records_precompleted
    /\ (Reported => printed.record_skipped_count = records_precompleted)

C18_Witness ==
    /\ records_precompleted > 0
    /\ Reported
    /\ interrupted
    /\ Len(observed) = 1

\* C19: the signal source puts at most one message into its buffer, the
\* buffer is never full when it sends, and its send neither waits nor fails.
C19_InterruptSentOnce ==
    /\ Len(interrupt_chan) <= 1
    /\ (interrupt_chan # << >> => ctrlc_pc = "done")
    /\ (int_thread_pc # "recv" /\ InterruptTxAlive => interrupt_chan = << >>)
    /\ (ctrlc_pc = "signalled" =>
           /\ InterruptRxAlive
           /\ Len(interrupt_chan) < InterruptCapacity)
    /\ ctrlc_pc # "panicked"

C19_Witness ==
    /\ interrupt_chan = << "unit" >>
    /\ ctrlc_pc = "done"

\* C20: no send of a progress event fails: neither the executor's send on
\* the progress channel nor the forwarding thread's send on the merged one.
C20_NoProgressSendFails ==
    /\ prog_thread_pc # "panicked"
    /\ proc_pc # "panicked"

\* C21: as long as no signal has been raised, the merged channel holds no
\* Interrupt event and the interrupted flag is false, in the Reporter and so
\* at the moment the report is emitted; this also holds after the sending
\* side of the interrupt channel was dropped without a send and
\* interrupt_rx_thread, woken by the failed recv, attempted its send.
C21_NoInterruptWithoutSignal ==
    ~SignalRaised =>
        /\ \A i \in 1..Len(merged_chan) : merged_chan[i] # Interrupt
        /\ ~interrupted
        /\ ~InterruptObserved
        /\ interrupt_chan = << >>

\* no signal, the report is out, tx was dropped unsent, and the interrupt
\* thread has returned from recv and made its send
C21_Witness ==
    /\ ~SignalRaised
    /\ Reported
    /\ ctrlc_pc = "dropped"
    /\ int_thread_pc = "done"

\* C22: every record whose persist was started has its progress event among
\* the emitted ones, no record's persist is started twice, and every persist
\* in flight or completed is one that was started; a step that completes a
\* persist leaves the Report, the interrupted flag, the tracker, the observed
\* events, the merged channel and the emitted report as they were.
C22_PersistAfterEmit ==
    /\ [](/\ \A i \in 1..Len(persist_started) :
               \E j \in 1..Len(emitted) : emitted[j].n = persist_started[i]
          /\ \A i, j \in 1..Len(persist_started) :
               i # j => persist_started[i] # persist_started[j]
          /\ (persisting \cup persisted) \subseteq
                 {persist_started[i] : i \in 1..Len(persist_started)}
          /\ persisting \cap persisted = {})
    /\ [][ persisted' # persisted =>
             /\ report' = report
             /\ interrupted' = interrupted
             /\ progress_overall' = progress_overall
             /\ observed' = observed
             /\ merged_chan' = merged_chan
             /\ printed' = printed ]_vars

\* two persists were started after their events were emitted, the later one
\* completed first, and the Reporter has consumed one event
C22_Witness ==
    /\ Len(persist_started) = 2
    /\ Len(emitted) = 2
    /\ persisted = {persist_started[2]}
    /\ persisting = {persist_started[1]}
    /\ Len(observed) = 1

============================================================================
